---- MODULE Spec2Model ----
(***************************************************************************)
(* Git-Forge: main.py (command line, configuration, validation) and        *)
(* strategies.py (GitStrategy: repository inspection, commit-type          *)
(* inference, message synthesis, filename generation, the commit loop and  *)
(* the cleanup pass).                                                      *)
(*                                                                         *)
(* File names and commit messages are strings; the helpers below compute   *)
(* on their characters the way the Python string methods do.  Time is in   *)
(* seconds.  The commit history is a sequence, most recent commit first,   *)
(* as iter_commits returns it.                                             *)
(***************************************************************************)
EXTENDS Integers, Sequences, FiniteSets, TLC

\* ---------------------------------------------------------------- bounds
MaxCommits == 3      \* commits of one run that the model follows
MaxTicks == 1        \* seconds the wall clock may advance during a run
MaxPinned == 3       \* commits followed when the random source is pinned
MaxRun == 21         \* commits of the longest run that the model follows

\* ------------------------------------------------------- string helpers
Upper == "ABCDEFGHIJKLMNOPQRSTUVWXYZ"
LowerAlpha == "abcdefghijklmnopqrstuvwxyz"

CharAt(s, k) == SubSeq(s, k, k)

LowerTable ==
  [c \in {CharAt(Upper, k) : k \in 1..26} |->
     CharAt(LowerAlpha, CHOOSE k \in 1..26 : CharAt(Upper, k) = c)]

LowerChar(c) == IF c \in DOMAIN LowerTable THEN LowerTable[c] ELSE c

RECURSIVE Lower(_)
Lower(s) ==
  IF Len(s) = 0 THEN ""
  ELSE LowerChar(CharAt(s, 1)) \o Lower(SubSeq(s, 2, Len(s)))

StartsWith(s, p) == Len(s) >= Len(p) /\ SubSeq(s, 1, Len(p)) = p

EndsWith(s, p) == Len(s) >= Len(p) /\ SubSeq(s, Len(s) - Len(p) + 1, Len(s)) = p

Contains(s, p) ==
  \E k \in 1..(Len(s) - Len(p) + 1) : SubSeq(s, k, k + Len(p) - 1) = p

\* any(pattern in s for pattern in patterns)
ContainsAny(s, patterns) ==
  \E n \in {Len(p) : p \in patterns} :
    \E k \in 1..(Len(s) - n + 1) : SubSeq(s, k, k + n - 1) \in patterns

IsSpace(c) == c \in {" ", "\n", "\t"}

RECURSIVE Strip(_)
Strip(s) ==
  IF Len(s) = 0 THEN s
  ELSE IF IsSpace(CharAt(s, 1)) THEN Strip(SubSeq(s, 2, Len(s)))
  ELSE IF IsSpace(CharAt(s, Len(s))) THEN Strip(SubSeq(s, 1, Len(s) - 1))
  ELSE s

\* 1-based index of the last occurrence of the character c in s, 0 if none
LastIndexOf(s, c) ==
  LET hits == {k \in 1..Len(s) : CharAt(s, k) = c}
  IN IF hits = {} THEN 0 ELSE CHOOSE k \in hits : \A j \in hits : j <= k

Basename(p) == SubSeq(p, LastIndexOf(p, "/") + 1, Len(p))

Dirname(p) ==
  LET k == LastIndexOf(p, "/") IN IF k = 0 THEN "" ELSE SubSeq(p, 1, k - 1)

\* pathlib: Path(p).suffix
Suffix(p) ==
  LET name == Basename(p)
      d == LastIndexOf(name, ".")
  IN IF d > 1 /\ d < Len(name) THEN SubSeq(name, d, Len(name)) ELSE ""

\* os.path.splitext(p), as the pair <<root, ext>>
SplitExt(p) ==
  LET sep == LastIndexOf(p, "/")
      dot == LastIndexOf(p, ".")
  IN IF dot > sep /\ (\E k \in (sep + 1)..(dot - 1) : CharAt(p, k) # ".")
     THEN <<SubSeq(p, 1, dot - 1), SubSeq(p, dot, Len(p))>>
     ELSE <<p, "">>

GetFileExtension(file_path) == Lower(Suffix(file_path))

Range(seq) == {seq[k] : k \in 1..Len(seq)}

\* ------------------------------------------------------ python optionals
None == <<>>
Some(v) == <<v>>

\* `a or b` on an optional integer a: None and 0 are falsy
OrInt(a, b) == IF a # None /\ a[1] # 0 THEN a[1] ELSE b

\* `a or b` on an optional Path a: every Path object is truthy
OrPath(a, b) == IF a # None THEN a[1] ELSE b

\* dict.get(key, default)
Get(opt, default) == IF opt # None THEN opt[1] ELSE default

\* ------------------------------------------------------------ wall clock
SecondsPerDay == 24 * 3600
StartClock == 12 * 3600

Pad2(n) == IF n < 10 THEN "0" \o ToString(n) ELSE ToString(n)

\* datetime.strftime("%H%M%S") of the clock value t
Hms(t) ==
  LET s == t % SecondsPerDay
  IN Pad2(s \div 3600) \o Pad2((s % 3600) \div 60) \o Pad2(s % 60)

\* ------------------------------------------------- tables of the program
\* GitStrategy._generate_realistic_commit_message: commit_patterns
CommitPatterns ==
  [initial_setup |-> <<"feat: initialize project structure",
                       "feat: set up basic project configuration",
                       "feat: create initial project skeleton",
                       "feat: add project foundation",
                       "feat: bootstrap project setup">>,
   core_features |-> <<"feat: implement core functionality",
                       "feat: add main application logic",
                       "feat: create primary business logic",
                       "feat: implement key features",
                       "feat: add essential functionality">>,
   api_development |-> <<"feat: add REST API endpoints",
                         "feat: implement API routes",
                         "feat: create API controllers",
                         "feat: add API middleware",
                         "feat: implement API authentication">>,
   database |-> <<"feat: add database models",
                  "feat: implement data persistence",
                  "feat: create database schema",
                  "feat: add ORM configuration",
                  "feat: implement data access layer">>,
   frontend |-> <<"feat: add user interface components",
                  "feat: implement frontend views",
                  "feat: create responsive design",
                  "feat: add client-side functionality",
                  "feat: implement user interactions">>,
   testing |-> <<"test: add unit tests",
                 "test: implement integration tests",
                 "test: add test coverage",
                 "test: create test suite",
                 "test: add automated tests">>,
   documentation |-> <<"docs: add API documentation",
                       "docs: update README with usage examples",
                       "docs: add code comments",
                       "docs: create user guide",
                       "docs: add deployment instructions">>,
   configuration |-> <<"config: update environment settings",
                       "config: add deployment configuration",
                       "config: update build settings",
                       "config: add CI/CD configuration",
                       "config: update package dependencies">>,
   bug_fixes |-> <<"fix: resolve authentication issue",
                   "fix: correct data validation error",
                   "fix: fix API response format",
                   "fix: resolve database connection issue",
                   "fix: correct frontend rendering bug">>,
   performance |-> <<"perf: optimize database queries",
                     "perf: improve API response time",
                     "perf: optimize frontend performance",
                     "perf: reduce memory usage",
                     "perf: improve loading speed">>,
   refactoring |-> <<"refactor: improve code structure",
                     "refactor: extract common utilities",
                     "refactor: reorganize project layout",
                     "refactor: simplify complex logic",
                     "refactor: improve code readability">>,
   security |-> <<"security: add input validation",
                  "security: implement proper authentication",
                  "security: fix security vulnerabilities",
                  "security: add data encryption",
                  "security: improve access controls">>]

Categories == DOMAIN CommitPatterns

\* messages.extend(...) by project type
ProjectMessages(project_type) ==
  IF project_type = "python_app"
  THEN <<"feat: add Python package structure",
         "feat: implement Python modules",
         "feat: add Python dependencies">>
  ELSE IF project_type = "web_app"
  THEN <<"feat: add web framework setup",
         "feat: implement web routes",
         "feat: add web templates">>
  ELSE IF project_type = "node_app"
  THEN <<"feat: add Node.js package setup",
         "feat: implement Express routes",
         "feat: add npm dependencies">>
  ELSE <<>>

\* messages.extend(...) by recent focus
FocusMessages(recent_focus) ==
  IF recent_focus = "api"
  THEN <<"feat: extend API functionality",
         "feat: add new API endpoint",
         "feat: improve API response handling">>
  ELSE IF recent_focus = "testing"
  THEN <<"test: add more test coverage",
         "test: improve test reliability",
         "test: add edge case tests">>
  ELSE IF recent_focus = "documentation"
  THEN <<"docs: improve existing documentation",
         "docs: add missing documentation",
         "docs: update API documentation">>
  ELSE <<>>

\* GitStrategy._generate_realistic_filename: the list of base names
FilenameList(commit_index) ==
  IF commit_index < 3
  THEN <<"setup.py", "requirements.txt", "README.md", "config.py", "main.py">>
  ELSE IF commit_index < 8
  THEN <<"app.py", "models.py", "utils.py", "helpers.py", "core.py">>
  ELSE IF commit_index < 12
  THEN <<"api.py", "routes.py", "database.py", "schema.py", "controllers.py">>
  ELSE IF commit_index < 15
  THEN <<"test_app.py", "test_models.py", "docs.md", "CHANGELOG.md",
         "CONTRIBUTING.md">>
  ELSE <<"fix_auth.py", "optimize_db.py", "security.py", "middleware.py",
         "validation.py">>

\* f"{name}_{commit_index}_{timestamp}{ext}" for the base name drawn
GenerateRealisticFilename(base_file, commit_index, t) ==
  LET parts == SplitExt(base_file)
  IN parts[1] \o "_" \o ToString(commit_index) \o "_" \o Hms(t) \o parts[2]

\* f"{name}_v{counter}{ext}": one pass of the loop body of _create_commit
NextCandidate(file_name, counter) ==
  LET parts == SplitExt(file_name)
  IN parts[1] \o "_v" \o ToString(counter) \o parts[2]

\* ------------------------------------------------------ change analysis
\* 1-based index of the first occurrence of the character c in s, 0 if none
FirstIndexOf(s, c) ==
  LET hits == {k \in 1..Len(s) : CharAt(s, k) = c}
  IN IF hits = {} THEN 0 ELSE CHOOSE k \in hits : \A j \in hits : k <= j

\* s.split(sep) for a separator of one character
RECURSIVE Split(_, _)
Split(s, sep) ==
  LET k == FirstIndexOf(s, sep)
  IN IF k = 0 THEN <<s>>
     ELSE <<SubSeq(s, 1, k - 1)>> \o Split(SubSeq(s, k + 1, Len(s)), sep)

NoChanges == [added |-> <<>>, modified |-> <<>>, deleted |-> <<>>, renamed |-> <<>>]

\* the body of the loop over the lines of the diff in _analyze_changes
ParseLine(changes, line) ==
  IF Strip(line) = "" THEN changes
  ELSE LET parts == Split(line, "\t")
       IN IF Len(parts) < 2 THEN changes
          ELSE IF parts[1] = "A"
          THEN [changes EXCEPT !.added = Append(@, parts[2])]
          ELSE IF parts[1] = "M"
          THEN [changes EXCEPT !.modified = Append(@, parts[2])]
          ELSE IF parts[1] = "D"
          THEN [changes EXCEPT !.deleted = Append(@, parts[2])]
          ELSE IF parts[1] = "R" /\ Len(parts) >= 3
          THEN [changes EXCEPT !.renamed = Append(@, <<parts[2], parts[3]>>)]
          ELSE changes

RECURSIVE ParseLines(_, _)
ParseLines(changes, lines) ==
  IF lines = <<>> THEN changes
  ELSE ParseLines(ParseLine(changes, Head(lines)), Tail(lines))

\* _create_dummy_changes: dummy_files
DummyFiles ==
  <<"src/main.py", "tests/test_main.py", "README.md", "requirements.txt",
    "config/settings.json">>

\* the diff that _analyze_changes goes on with: the staged one, or the
\* unstaged one when the staged one is blank
DiffChosen(staged, unstaged) == IF Strip(staged) = "" THEN unstaged ELSE staged

\* ------------------------------------------------ commit-type inference
IsDocFile(f) == GetFileExtension(f) \in {".md", ".txt", ".rst"}

\* the for loop over changes['modified'] of _generate_commit_type
RECURSIVE ModifiedType(_)
ModifiedType(modified_files) ==
  IF modified_files = <<>> THEN "fix"
  ELSE LET ext == GetFileExtension(Head(modified_files))
       IN IF ext \in {".py", ".js", ".ts"} THEN "fix"
          ELSE IF ext \in {".md", ".txt"} THEN "docs"
          ELSE IF ext \in {".json", ".yaml", ".yml"} THEN "config"
          ELSE ModifiedType(Tail(modified_files))

GenerateCommitType(changes) ==
  IF changes.added # <<>>
  THEN LET docs_files == SelectSeq(changes.added, IsDocFile)
       IN IF docs_files # <<>> /\ Len(docs_files) = Len(changes.added)
          THEN "docs" ELSE "feat"
  ELSE IF changes.deleted # <<>> THEN "refactor"
  ELSE IF changes.modified # <<>> THEN ModifiedType(changes.modified)
  ELSE "chore"

\* ------------------------------------------------ repository inspection
\* commit messages as stored in the history (git appends the newline)
Stored(message) == message \o "\n"

\* messages of commits made before the run, used by the initial histories
SampleMessages ==
  {"feat: implement API routes\n",
   "fix: resolve database connection issue\n",
   "docs: create user guide\n",
   "test: add unit tests\n",
   "perf: reduce memory usage\n",
   "refactor: simplify complex logic\n",
   "Feat: Initial import\n",
   "  feat: add login form\n",
   "chore: bump version\n"}

SynthesizedMessages ==
  UNION {Range(CommitPatterns[c]) : c \in Categories}
  \cup UNION {Range(ProjectMessages(t)) : t \in {"python_app", "web_app", "node_app"}}
  \cup UNION {Range(FocusMessages(r)) : r \in {"api", "testing", "documentation"}}

KnownMessages == SampleMessages \cup {Stored(m) : m \in SynthesizedMessages}

\* what _analyze_commit_history reads off one stored message:
\* commit.message.strip(), the startswith tests and the substring tests
ScanMessage(raw) ==
  LET msg == Strip(raw)
      low == Lower(msg)
  IN [feat |-> StartsWith(msg, "feat:"),
      fix |-> StartsWith(msg, "fix:"),
      docs |-> StartsWith(msg, "docs:"),
      test |-> StartsWith(msg, "test:"),
      perf |-> StartsWith(msg, "perf:"),
      refactor |-> StartsWith(msg, "refactor:"),
      has_api |-> Contains(low, "api"),
      has_test |-> Contains(low, "test"),
      has_doc |-> Contains(low, "doc"),
      has_fix |-> Contains(low, "fix"),
      has_perf |-> Contains(low, "perf"),
      has_auth |-> Contains(low, "auth"),
      has_db |-> Contains(low, "db") \/ Contains(low, "database"),
      has_ui |-> Contains(low, "ui") \/ Contains(low, "frontend")]

\* the scan of every message the model can hold, computed once
Scan == [raw \in KnownMessages |-> ScanMessage(raw)]

MaxCount == 20       \* iter_commits('HEAD', max_count=20)
RecentCount == 5     \* messages[:5]

Min(a, b) == IF a < b THEN a ELSE b

\* every message scanned taken as recent
RecentMessagesAll(n) == 1..n

\* messages[:5]: the positions of the recent messages among the n scanned
RecentMessages(n) == 1..Min(n, RecentCount)

\* the rules with the first threshold off by one
DevelopmentPhaseOffByOne(total, feat, fix, docs, test, perf, refactor) ==
  IF total <= 5 THEN "initial"
  ELSE IF feat > fix * 2 THEN "feature_development"
  ELSE IF fix > feat THEN "bug_fixing"
  ELSE IF docs * 10 > total * 3 THEN "documentation"
  ELSE IF test * 5 > total THEN "testing"
  ELSE IF perf > 0 \/ refactor > 0 THEN "optimization"
  ELSE "maintenance"

\* the threshold rules on the counted prefixes; total * 0.3 and total * 0.2
\* are compared as 3 * total / 10 and total / 5 (equal for every total here)
DevelopmentPhase(total, feat, fix, docs, test, perf, refactor) ==
  IF total < 5 THEN "initial"
  ELSE IF feat > fix * 2 THEN "feature_development"
  ELSE IF fix > feat THEN "bug_fixing"
  ELSE IF docs * 10 > total * 3 THEN "documentation"
  ELSE IF test * 5 > total THEN "testing"
  ELSE IF perf > 0 \/ refactor > 0 THEN "optimization"
  ELSE "maintenance"

\* defaults that name another phase
HistoryDefaultsMaintenance ==
  [development_phase |-> "maintenance", feature_areas |-> {}, recent_focus |-> "setup"]

\* the analysis dictionary as _analyze_commit_history creates it
HistoryDefaults ==
  [development_phase |-> "initial", feature_areas |-> {}, recent_focus |-> "setup"]

\* GitStrategy._analyze_commit_history on the history lg (most recent first);
\* iter_commits('HEAD') raises on a repository without commits and the
\* except clause returns the defaults
AnalyzeCommitHistory(lg) ==
  IF lg = <<>> THEN HistoryDefaults
  ELSE
    LET n == Min(Len(lg), MaxCount)
        sc == [k \in 1..n |-> Scan[lg[k].message]]
        Count(field) == Cardinality({k \in 1..n : sc[k][field]})
        recent == RecentMessages(n)
        InRecent(field) == \E k \in recent : sc[k][field]
        InScanned(field) == \E k \in 1..n : sc[k][field]
    IN [development_phase |->
          DevelopmentPhase(n, Count("feat"), Count("fix"), Count("docs"),
                           Count("test"), Count("perf"), Count("refactor")),
        recent_focus |->
          IF InRecent("has_api") THEN "api"
          ELSE IF InRecent("has_test") THEN "testing"
          ELSE IF InRecent("has_doc") THEN "documentation"
          ELSE IF InRecent("has_fix") THEN "bug_fixes"
          ELSE IF InRecent("has_perf") THEN "performance"
          ELSE "setup",
        feature_areas |->
          (IF InScanned("has_api") THEN {"api"} ELSE {})
          \cup (IF InScanned("has_auth") THEN {"authentication"} ELSE {})
          \cup (IF InScanned("has_db") THEN {"database"} ELSE {})
          \cup (IF InScanned("has_ui") THEN {"frontend"} ELSE {})
          \cup (IF InScanned("has_test") THEN {"testing"} ELSE {})
          \cup (IF InScanned("has_doc") THEN {"documentation"} ELSE {})]

\* os.walk root of the directory holding f, under the working directory wd
RootOf(wd, f) == IF Dirname(f) = "" THEN wd ELSE wd \o "/" \o Dirname(f)

\* the walk of _analyze_repository_structure and _cleanup_temp_files:
\* every directory whose path contains '.git' is skipped
AllFiles(fs, wd) == {f \in fs : ~Contains(RootOf(wd, f), ".git")}

LangOrder == <<"python", "javascript", "java", "cpp", "go", "rust">>

LangCounts(all_files) ==
  LET ext == [f \in all_files |-> GetFileExtension(f)]
      n(e) == Cardinality({f \in all_files : ext[f] = e})
  IN [python |-> n(".py"),
      javascript |-> n(".js") + n(".ts"),
      java |-> n(".java"),
      cpp |-> n(".cpp") + n(".c"),
      go |-> n(".go"),
      rust |-> n(".rs")]

\* max(lang_counts, key=lang_counts.get): the first key holding the maximum
MainLanguage(all_files) ==
  LET c == LangCounts(all_files)
      best == CHOOSE k \in 1..6 :
                /\ \A j \in 1..6 : c[LangOrder[j]] <= c[LangOrder[k]]
                /\ \A j \in 1..(k - 1) : c[LangOrder[j]] < c[LangOrder[k]]
  IN LangOrder[best]

ProjectType(all_files) ==
  LET main_language == MainLanguage(all_files)
      low == [f \in all_files |-> Lower(f)]
  IN IF main_language = "python"
     THEN IF \E f \in all_files :
               Contains(low[f], "requirements") \/ Contains(f, "setup.py")
          THEN "python_app"
          ELSE IF \E f \in all_files :
               Contains(low[f], "django") \/ Contains(low[f], "flask")
          THEN "web_app"
          ELSE "unknown"
     ELSE IF main_language = "javascript"
     THEN IF \E f \in all_files : Contains(f, "package.json")
          THEN "node_app"
          ELSE IF \E f \in all_files :
               Contains(low[f], "react") \/ Contains(low[f], "vue")
          THEN "frontend_app"
          ELSE "unknown"
     ELSE "unknown"

\* structure['file_types']: the number of files of every extension met
FileTypes(all_files) ==
  LET ext == [f \in all_files |-> GetFileExtension(f)]
  IN [e \in {ext[f] : f \in all_files} \ {""} |->
        Cardinality({f \in all_files : ext[f] = e})]

\* what the inspection can meet: no error, an error raised by the walk of
\* the tree, an error raised by the read of the history
InspectionFaults == {"none", "walk", "history"}

\* the structure dictionary as created, read the way the message synthesis
\* reads it (recent_focus and feature_areas by .get with a default)
StructureDefaults ==
  [file_types |-> <<>>,
   main_language |-> "None",
   project_type |-> "unknown",
   has_tests |-> FALSE,
   has_docs |-> FALSE,
   has_config |-> FALSE,
   development_phase |-> "initial",
   recent_focus |-> "setup",
   feature_areas |-> {}]

\* GitStrategy._analyze_repository_structure on the tree fs and history lg;
\* an error of the walk leaves the structure as created, an error of the
\* history read leaves the defaults of _analyze_commit_history
AnalyzeRepositoryStructure(fs, lg, wd, fault) ==
  IF fault = "walk" THEN StructureDefaults
  ELSE
  LET all_files == AllFiles(fs, wd)
      low == [f \in all_files |-> Lower(f)]
      history == IF fault = "history" THEN HistoryDefaults
                 ELSE AnalyzeCommitHistory(lg)
  IN [file_types |-> FileTypes(all_files),
      main_language |-> MainLanguage(all_files),
      project_type |-> ProjectType(all_files),
      has_tests |-> \E f \in all_files :
                      Contains(low[f], "test") \/ Contains(low[f], "spec"),
      has_docs |-> \E f \in all_files :
                      EndsWith(f, ".md") \/ EndsWith(f, ".txt") \/ EndsWith(f, ".rst"),
      has_config |-> \E f \in all_files :
                      \/ EndsWith(f, ".json") \/ EndsWith(f, ".yaml")
                      \/ EndsWith(f, ".yml") \/ EndsWith(f, ".toml")
                      \/ EndsWith(f, ".ini"),
      development_phase |-> history.development_phase,
      recent_focus |-> history.recent_focus,
      feature_areas |-> history.feature_areas]

\* --------------------------------------------------------------- authors
\* an Actor, as <<name, email>>
DefaultAuthors ==
  <<<<"John Doe", "john.doe@example.com">>,
    <<"Jane Smith", "jane.smith@example.com">>,
    <<"Developer", "dev@example.com">>>>

FallbackAuthors == <<<<"Developer", "dev@example.com">>>>

\* isinstance(author_data, dict) and 'name' in author_data and 'email' in
\* author_data; an entry is a record, one that is not a dict has no key
IsAuthorEntry(author_data) == {"name", "email"} \subseteq DOMAIN author_data

\* the authors built from config['authors']
RECURSIVE ConfigAuthors(_)
ConfigAuthors(entries) ==
  IF entries = <<>> THEN <<>>
  ELSE (IF IsAuthorEntry(Head(entries))
        THEN <<<<Head(entries).name, Head(entries).email>>>> ELSE <<>>)
       \o ConfigAuthors(Tail(entries))

\* the authors built from the pairs of GIT_AUTHORS
RECURSIVE PairAuthors(_)
PairAuthors(pairs) ==
  IF pairs = <<>> THEN <<>>
  ELSE (IF Contains(Head(pairs), ":")
        THEN LET pair == Strip(Head(pairs))
                 k == FirstIndexOf(pair, ":")
             IN <<<<Strip(SubSeq(pair, 1, k - 1)),
                    Strip(SubSeq(pair, k + 1, Len(pair)))>>>>
        ELSE <<>>)
       \o PairAuthors(Tail(pairs))

\* GitStrategy._get_authors on the optional config['authors'] and on the
\* value of GIT_AUTHORS ("" when unset)
GetAuthors(config_authors, authors_str) ==
  LET authors == IF config_authors # None THEN ConfigAuthors(config_authors[1])
                 ELSE <<>>
  IN IF authors # <<>> THEN authors
     ELSE IF authors_str = "" THEN DefaultAuthors
     ELSE LET from_env == PairAuthors(Split(authors_str, ","))
          IN IF from_env # <<>> THEN from_env ELSE FallbackAuthors

\* ---------------------------------------------------------- file content
\* the templates of the content generators, by name
GeneratePythonContent(file_path) ==
  IF Contains(Lower(file_path), "test") THEN "python_unit_test"
  ELSE IF Contains(Lower(file_path), "model") THEN "python_model_class"
  ELSE "python_main_module"

GenerateJavascriptContent(file_path) ==
  IF Contains(Lower(file_path), "test") THEN "javascript_unit_test"
  ELSE "javascript_main_module"

GenerateMarkdownContent(file_path) ==
  IF Contains(Lower(file_path), "readme") THEN "markdown_readme"
  ELSE "markdown_document"

GenerateConfigContent(file_path) ==
  IF Contains(file_path, "package.json") THEN "config_manifest"
  ELSE "config_key_value"

\* GitStrategy._create_realistic_file_content: the template the content of
\* file_path is made from
CreateRealisticFileContent(file_path) ==
  LET ext == GetFileExtension(file_path)
  IN IF ext = ".py" THEN GeneratePythonContent(file_path)
     ELSE IF ext \in {".js", ".ts"} THEN GenerateJavascriptContent(file_path)
     ELSE IF ext = ".md" THEN GenerateMarkdownContent(file_path)
     ELSE IF ext \in {".json", ".yaml", ".yml"} THEN GenerateConfigContent(file_path)
     ELSE "fallback_text"

\* ------------------------------------------------------------ classifier
\* the setup test with the bound off by one
IsSetupIndexOffByOne(commit_index) == commit_index <= 3

\* `commit_index < 3` of the first branch
IsSetupIndex(commit_index) == commit_index < 3

\* the category selection with a first branch that tests the index alone
CategoryChoicesSetupByIndex(development_phase, recent_focus, feature_areas, commit_index) ==
  IF IsSetupIndex(commit_index)
  THEN <<"initial_setup">>
  ELSE IF development_phase = "feature_development"
  THEN IF "api" \in feature_areas /\ recent_focus = "api" THEN <<"api_development">>
       ELSE IF "database" \in feature_areas THEN <<"database">>
       ELSE IF "frontend" \in feature_areas THEN <<"frontend">>
       ELSE <<"core_features">>
  ELSE IF development_phase = "bug_fixing" THEN <<"bug_fixes">>
  ELSE IF development_phase = "documentation" THEN <<"documentation">>
  ELSE IF development_phase = "testing" THEN <<"testing">>
  ELSE IF development_phase = "optimization" THEN <<"performance", "refactoring">>
  ELSE IF commit_index < 8 THEN <<"core_features">>
  ELSE IF commit_index < 12 THEN <<"api_development", "database", "frontend">>
  ELSE IF commit_index < 15 THEN <<"testing", "documentation", "configuration">>
  ELSE <<"bug_fixes", "performance", "refactoring", "security">>

\* the category selection of _generate_realistic_commit_message, as the
\* list handed to random.choice (one element where the code assigns)
CategoryChoices(development_phase, recent_focus, feature_areas, commit_index) ==
  IF development_phase = "initial" \/ IsSetupIndex(commit_index)
  THEN <<"initial_setup">>
  ELSE IF development_phase = "feature_development"
  THEN IF "api" \in feature_areas /\ recent_focus = "api" THEN <<"api_development">>
       ELSE IF "database" \in feature_areas THEN <<"database">>
       ELSE IF "frontend" \in feature_areas THEN <<"frontend">>
       ELSE <<"core_features">>
  ELSE IF development_phase = "bug_fixing" THEN <<"bug_fixes">>
  ELSE IF development_phase = "documentation" THEN <<"documentation">>
  ELSE IF development_phase = "testing" THEN <<"testing">>
  ELSE IF development_phase = "optimization" THEN <<"performance", "refactoring">>
  ELSE IF commit_index < 8 THEN <<"core_features">>
  ELSE IF commit_index < 12 THEN <<"api_development", "database", "frontend">>
  ELSE IF commit_index < 15 THEN <<"testing", "documentation", "configuration">>
  ELSE <<"bug_fixes", "performance", "refactoring", "security">>

\* the branch of the category selection that is taken, numbered in the
\* order of the if/elif chain (7 is the else branch)
ClassifierBranch(development_phase, commit_index) ==
  IF development_phase = "initial" \/ IsSetupIndex(commit_index) THEN 1
  ELSE IF development_phase = "feature_development" THEN 2
  ELSE IF development_phase = "bug_fixing" THEN 3
  ELSE IF development_phase = "documentation" THEN 4
  ELSE IF development_phase = "testing" THEN 5
  ELSE IF development_phase = "optimization" THEN 6
  ELSE 7

\* the candidate list when the project messages are appended twice
MessagePoolExtendedTwice(category, project_type, recent_focus) ==
  CommitPatterns[category] \o ProjectMessages(project_type)
  \o ProjectMessages(project_type) \o FocusMessages(recent_focus)

\* the candidate list after both extend calls
MessagePool(category, project_type, recent_focus) ==
  CommitPatterns[category] \o ProjectMessages(project_type)
  \o FocusMessages(recent_focus)

\* -------------------------------------------- change-analysis messages
\* self.file_patterns
FilePatterns ==
  [python |-> {".py"},
   javascript |-> {".js", ".ts", ".jsx", ".tsx"},
   html |-> {".html", ".htm"},
   css |-> {".css", ".scss", ".sass"},
   config |-> {".json", ".yaml", ".yml", ".toml", ".ini", ".cfg"},
   docs |-> {".md", ".txt", ".rst"},
   data |-> {".csv", ".xml", ".sql", ".db"}]

\* GitStrategy._categorize_files: the files of each category, in order
CategorizeFiles(file_list) ==
  LET of(exts) == SelectSeq(file_list, LAMBDA f : GetFileExtension(f) \in exts)
  IN [python |-> of(FilePatterns.python),
      javascript |-> of(FilePatterns.javascript),
      html |-> of(FilePatterns.html),
      css |-> of(FilePatterns.css),
      config |-> of(FilePatterns.config),
      docs |-> of(FilePatterns.docs),
      data |-> of(FilePatterns.data),
      other |-> SelectSeq(file_list, LAMBDA f :
                  \A c \in DOMAIN FilePatterns : GetFileExtension(f) \notin FilePatterns[c])]

\* 's' if len(...) > 1 else ''
Plural(file_list) == IF Len(file_list) > 1 THEN "s" ELSE ""

\* any(word in f.lower() for f in file_list)
AnyHas(file_list, word) ==
  \E k \in 1..Len(file_list) : Contains(Lower(file_list[k]), word)

\* the message without the colon after the type
TypedNoColon(commit_type, text) == commit_type \o " " \o text

\* f"{commit_type}: {text}"
Typed(commit_type, text) == commit_type \o ": " \o text

GeneratePythonCommitMessage(changes, commit_type, categories) ==
  IF changes.added # <<>> /\ categories.python # <<>>
  THEN IF AnyHas(categories.python, "test")
       THEN Typed(commit_type, "add test" \o Plural(categories.python))
       ELSE IF AnyHas(categories.python, "model") \/ AnyHas(categories.python, "class")
       THEN Typed(commit_type, "add model" \o Plural(categories.python))
       ELSE Typed(commit_type, "add Python module" \o Plural(categories.python))
  ELSE IF changes.added # <<>> /\ categories.docs # <<>>
  THEN Typed(commit_type, "add documentation")
  ELSE IF changes.added # <<>> /\ categories.config # <<>>
  THEN Typed(commit_type, "add configuration")
  ELSE IF changes.added = <<>> /\ changes.modified # <<>> /\ categories.python # <<>>
  THEN IF AnyHas(categories.python, "test")
       THEN Typed(commit_type, "update test" \o Plural(categories.python))
       ELSE Typed(commit_type, "update Python code")
  ELSE IF changes.added = <<>> /\ changes.modified # <<>> /\ categories.docs # <<>>
  THEN Typed(commit_type, "update documentation")
  ELSE IF changes.added = <<>> /\ changes.modified # <<>> /\ categories.config # <<>>
  THEN Typed(commit_type, "update configuration")
  ELSE Typed(commit_type, "update Python project")

GenerateWebCommitMessage(changes, commit_type, categories) ==
  LET verb == IF changes.added # <<>> THEN "add "
              ELSE IF changes.modified # <<>> THEN "update " ELSE ""
  IN IF verb # "" /\ categories.python # <<>>
     THEN Typed(commit_type, verb \o "view" \o Plural(categories.python))
     ELSE IF verb # "" /\ categories.html # <<>>
     THEN Typed(commit_type, verb \o "template" \o Plural(categories.html))
     ELSE IF verb # "" /\ categories.css # <<>>
     THEN Typed(commit_type, verb \o "style" \o Plural(categories.css))
     ELSE Typed(commit_type, "update web application")

GenerateNodeCommitMessage(changes, commit_type, categories) ==
  IF changes.added # <<>> /\ categories.javascript # <<>>
  THEN Typed(commit_type, "add JavaScript module" \o Plural(categories.javascript))
  ELSE IF changes.added # <<>> /\ categories.config # <<>>
  THEN Typed(commit_type, "add package configuration")
  ELSE IF changes.added = <<>> /\ changes.modified # <<>> /\ categories.javascript # <<>>
  THEN Typed(commit_type, "update JavaScript code")
  ELSE IF changes.added = <<>> /\ changes.modified # <<>> /\ categories.config # <<>>
  THEN Typed(commit_type, "update package configuration")
  ELSE Typed(commit_type, "update Node.js application")

GenerateFrontendCommitMessage(changes, commit_type, categories) ==
  LET verb == IF changes.added # <<>> THEN "add "
              ELSE IF changes.modified # <<>> THEN "update " ELSE ""
  IN IF verb # "" /\ categories.javascript # <<>>
     THEN Typed(commit_type, verb \o "component" \o Plural(categories.javascript))
     ELSE IF verb # "" /\ categories.css # <<>>
     THEN Typed(commit_type, verb \o "style" \o Plural(categories.css))
     ELSE IF verb # "" /\ categories.html # <<>>
     THEN Typed(commit_type, verb \o "page" \o Plural(categories.html))
     ELSE Typed(commit_type, "update frontend application")

GenerateGenericCommitMessage(changes, commit_type, categories) ==
  IF changes.added # <<>>
  THEN IF categories.python # <<>>
       THEN Typed(commit_type, "add Python module" \o Plural(categories.python))
       ELSE IF categories.javascript # <<>>
       THEN Typed(commit_type, "add JavaScript component" \o Plural(categories.javascript))
       ELSE IF categories.docs # <<>>
       THEN Typed(commit_type, "add documentation")
       ELSE IF categories.config # <<>>
       THEN Typed(commit_type, "add configuration file" \o Plural(categories.config))
       ELSE Typed(commit_type, "add new file" \o Plural(changes.added))
  ELSE IF changes.modified # <<>>
  THEN IF categories.python # <<>> THEN Typed(commit_type, "update Python code")
       ELSE IF categories.javascript # <<>>
       THEN Typed(commit_type, "update JavaScript code")
       ELSE IF categories.docs # <<>> THEN Typed(commit_type, "update documentation")
       ELSE IF categories.config # <<>> THEN Typed(commit_type, "update configuration")
       ELSE Typed(commit_type, "update file" \o Plural(changes.modified))
  ELSE IF changes.deleted # <<>>
  THEN Typed(commit_type, "remove unused file" \o Plural(changes.deleted))
  ELSE IF changes.renamed # <<>>
  THEN Typed(commit_type, "rename file" \o Plural(changes.renamed))
  ELSE Typed(commit_type, "update repository")

\* GitStrategy._generate_contextual_commit_message on the tree fs
GenerateContextualCommitMessage(changes, commit_type, fs, wd) ==
  LET all_files == changes.added \o changes.modified \o changes.deleted
      categories == CategorizeFiles(all_files)
      project_type == ProjectType(AllFiles(fs, wd))
  IN IF all_files = <<>> THEN Typed(commit_type, "update repository")
     ELSE IF project_type = "python_app"
     THEN GeneratePythonCommitMessage(changes, commit_type, categories)
     ELSE IF project_type = "web_app"
     THEN GenerateWebCommitMessage(changes, commit_type, categories)
     ELSE IF project_type = "node_app"
     THEN GenerateNodeCommitMessage(changes, commit_type, categories)
     ELSE IF project_type = "frontend_app"
     THEN GenerateFrontendCommitMessage(changes, commit_type, categories)
     ELSE GenerateGenericCommitMessage(changes, commit_type, categories)

\* GitStrategy._generate_realistic_commit_message on the tree fs and the
\* history lg: the messages random.choice can return
RealisticCommitMessages(commit_index, fs, lg, wd) ==
  LET project_type == ProjectType(AllFiles(fs, wd))
      history == AnalyzeCommitHistory(lg)
      categories == Range(CategoryChoices(history.development_phase,
                                          history.recent_focus,
                                          history.feature_areas, commit_index))
  IN UNION {Range(MessagePool(category, project_type, history.recent_focus)) :
              category \in categories}

\* ------------------------------------------------------------ the state
VARIABLES
  cli,     \* command line: optional repo_path, commits, days_spread; flags
  cfg,     \* configuration file: optional repo_path, commits, days_spread
  rng,     \* the random source: "free" (any outcome), "names" (any author and
           \* base name, the other draws seeded), "pinned" and "seeded" (every
           \* draw seeded), "texts" (any message, the other draws seeded) or
           \* "extras" (second base name; first or appended message)
  pc,      \* position of the program
  final,   \* main: final_repo_path, final_commits, final_days_spread
  i,       \* run: the loop index
  files,   \* working tree: paths of the files, relative to the repository
  log,     \* commit history, most recent first: message, file, loop index
  cur,     \* _create_commit: commit date, base name, file_name, counter
  last,    \* the commit recorded last by this run, with its wall-clock time
  now,     \* wall clock, in seconds
  err,     \* "none", or the error that ended the run
  pre,     \* working tree and history as they were before the run
  fn,      \* input and result of a function applied on its own
  env,     \* the environment: GIT_AUTHORS, and whether tree and history reads may fail
  cleaned  \* number of cleanup passes made

vars == <<cli, cfg, rng, pc, final, i, files, log, cur, last, now, err, pre, fn, env, cleaned>>

DefaultRepoPath == "."
DefaultCommits == 10
DefaultDaysSpread == 10

CwdPath == "/work/cwd"
RepoPath == "/work/repo"
OtherRepoPath == "/work/other"
MissingPath == "/work/missing"

PathExists(p) == p # MissingPath

\* Repo(path).working_dir
WorkingDir(p) == IF p = DefaultRepoPath THEN CwdPath ELSE p

NoCommit ==
  [index |-> -1, base |-> "", file |-> "", date |-> 0, created |-> 0,
   category |-> "", project_type |-> "", message |-> "",
   generated |-> "", content |-> "", author |-> <<>>, fault |-> "none",
   development_phase |-> "", recent_focus |-> "", feature_areas |-> {},
   pool |-> <<>>]

NoLocals ==
  [date |-> 0, base |-> "", file_name |-> "", counter |-> 0, generated |-> "",
   author |-> <<>>]

\* the position of run after git add or git commit raised and the loop went on
AfterFailureRetry == "loop"

\* the position of run after git add or git commit raised: run has no except
\* clause, the loop is left for the finally clause
AfterFailure == "raised"

\* the faults an inspection of this run can meet
Faults == IF env.faulty THEN InspectionFaults ELSE {"none"}

NoFinal == [repo_path |-> "", commits |-> 0, days_spread |-> 0]

NoCall == [op |-> "none"]

\* random.choice(options)
Choice(options) ==
  IF rng \in {"pinned", "seeded", "texts"} THEN {options[1]}
  ELSE IF rng = "extras" THEN {options[Min(2, Len(options))]}
  ELSE Range(options)

\* the messages every category of commit_patterns lists
CategorySize == Len(CommitPatterns["initial_setup"])

\* random.choice(options) for the category and for the message
ChoiceOfText(options) ==
  IF rng \in {"free", "texts"} THEN Range(options)
  ELSE IF rng = "extras"
  THEN {options[1]} \cup {options[k] : k \in (CategorySize + 1)..Len(options)}
  ELSE {options[1]}

\* random.randint(0, 23) with random.randint(0, 59), as <<hours, minutes>>:
\* the smallest and the largest offset the two draws can give
OffsetDraws == IF rng = "free" THEN {<<0, 0>>, <<23, 59>>} ELSE {<<0, 0>>}

CommitLimit ==
  IF rng = "pinned" THEN MaxPinned
  ELSE IF rng \in {"free", "names"} THEN MaxCommits
  ELSE MaxRun

\* the patterns _cleanup_temp_files looks for in a path
TempPatterns ==
  {"_" \o ToString(k) \o "_" : k \in 0..19} \cup {"_v" \o ToString(k) : k \in 1..5}

TempFiles(fs, wd) ==
  {f \in AllFiles(fs, wd) : ContainsAny(f, TempPatterns)}

\* a loop that runs once more than asked
RangeHasInclusive(index, commits) == index <= commits

\* `for i in range(commits)`: the loop body runs for index
RangeHas(index, commits) == index < commits

\* an existence test that never finds the file
PathTakenNever(name, tree) == FALSE

\* dummy_path.exists() for the path of name in the working tree
PathTaken(name, tree) == name \in tree

\* ---------------------------------------------------------------- main
\* main(): overrides, validation, dry run, up to the call of strategy.run
Main ==
  /\ pc = "main"
  /\ LET final_repo_path == OrPath(cli.repo_path, Get(cfg.repo_path, DefaultRepoPath))
         final_commits == OrInt(cli.commits, Get(cfg.commits, DefaultCommits))
         final_days_spread == OrInt(cli.days_spread, Get(cfg.days_spread, DefaultDaysSpread))
     IN /\ final' = [repo_path |-> final_repo_path, commits |-> final_commits,
                     days_spread |-> final_days_spread]
        /\ IF \/ ~PathExists(final_repo_path)
              \/ final_commits <= 0
              \/ final_days_spread < 0
           THEN pc' = "aborted" /\ err' = "config"
           ELSE IF cli.dry_run
           THEN pc' = "dry_run" /\ err' = err
           ELSE pc' = "loop" /\ err' = err
  /\ UNCHANGED <<cli, cfg, rng, i, files, log, cur, last, now, pre, fn, env, cleaned>>

\* ---------------------------------------------------------------- run
\* _create_commit up to the while statement: commit date, base name and
\* generated file name
BeginCommit ==
  /\ pc = "loop"
  /\ RangeHas(i, final.commits)
  /\ i < CommitLimit
  /\ \E author \in Choice(GetAuthors(cfg.authors, env.git_authors)),
        offset \in OffsetDraws, base_file \in Choice(FilenameList(i)) :
       cur' = [date |-> now - (final.days_spread * SecondsPerDay
                               + offset[1] * 3600 + offset[2] * 60),
               base |-> base_file,
               file_name |-> GenerateRealisticFilename(base_file, i, now),
               counter |-> 1,
               generated |-> GenerateRealisticFilename(base_file, i, now),
               author |-> author]
  /\ pc' = "exists"
  /\ UNCHANGED <<cli, cfg, rng, final, i, files, log, last, now, err, pre, fn, env, cleaned>>

\* one pass of `while dummy_path.exists()`
NextName ==
  /\ pc = "exists"
  /\ PathTaken(cur.file_name, files)
  /\ cur' = [cur EXCEPT !.file_name = NextCandidate(cur.file_name, cur.counter),
                        !.counter = cur.counter + 1]
  /\ UNCHANGED <<cli, cfg, rng, pc, final, i, files, log, last, now, err, pre, fn, env, cleaned>>

\* the rest of _create_commit when git add and git commit succeed
FinishCommit ==
  /\ pc = "exists"
  /\ ~PathTaken(cur.file_name, files)
  /\ files' = files \cup {cur.file_name}
  /\ \E fault \in Faults :
     \E structure \in {AnalyzeRepositoryStructure(files \cup {cur.file_name}, log,
                         WorkingDir(final.repo_path), fault)} :
     \E category \in ChoiceOfText(CategoryChoices(structure.development_phase,
                                                  structure.recent_focus,
                                                  structure.feature_areas, i)) :
     \E messages \in {MessagePool(category, structure.project_type,
                                  structure.recent_focus)} :
     \E message \in ChoiceOfText(messages) :
       /\ log' = <<[message |-> Stored(message), file |-> cur.file_name,
                    index |-> i, author |-> cur.author]>> \o log
       /\ last' = [index |-> i, base |-> cur.base, file |-> cur.file_name,
                   date |-> cur.date, created |-> now,
                   category |-> category,
                   project_type |-> structure.project_type,
                   message |-> message,
                   generated |-> cur.generated,
                   content |-> CreateRealisticFileContent(cur.file_name),
                   author |-> cur.author,
                   fault |-> fault,
                   development_phase |-> structure.development_phase,
                   recent_focus |-> structure.recent_focus,
                   feature_areas |-> structure.feature_areas,
                   pool |-> messages]
  /\ i' = i + 1
  /\ pc' = "loop"
  /\ cur' = NoLocals
  /\ UNCHANGED <<cli, cfg, rng, final, now, err, pre, fn, env, cleaned>>

\* git add raises: the file is written, nothing is committed
StageFails ==
  /\ pc = "exists"
  /\ ~PathTaken(cur.file_name, files)
  /\ files' = files \cup {cur.file_name}
  /\ err' = "stage"
  /\ pc' = AfterFailure
  /\ cur' = NoLocals
  /\ UNCHANGED <<cli, cfg, rng, final, i, log, last, now, pre, fn, env, cleaned>>

\* git commit raises: the file is written and staged, nothing is committed
CommitFails ==
  /\ pc = "exists"
  /\ ~PathTaken(cur.file_name, files)
  /\ files' = files \cup {cur.file_name}
  /\ err' = "commit"
  /\ pc' = AfterFailure
  /\ cur' = NoLocals
  /\ UNCHANGED <<cli, cfg, rng, final, i, log, last, now, pre, fn, env, cleaned>>

\* the end of run: range(commits) is exhausted or _create_commit raised;
\* the finally clause runs, then run returns to main or the error propagates
Finally ==
  /\ \/ pc = "loop" /\ ~RangeHas(i, final.commits)
     \/ pc = "raised"
  /\ files' = IF ~cli.no_cleanup
              THEN files \ TempFiles(files, WorkingDir(final.repo_path))
              ELSE files
  /\ cleaned' = IF ~cli.no_cleanup THEN cleaned + 1 ELSE cleaned
  /\ pc' = IF err = "none" THEN "done" ELSE "aborted"
  /\ UNCHANGED <<cli, cfg, rng, final, i, log, cur, last, now, err, pre, fn, env>>

\* the wall clock advances while a commit is being prepared
Tick ==
  /\ pc = "exists"
  /\ now < StartClock + MaxTicks
  /\ now' = now + 1
  /\ UNCHANGED <<cli, cfg, rng, pc, final, i, files, log, cur, last, err, pre, fn, env, cleaned>>

\* ------------------------------------------------------- initial states
\* names the first commit of a run started at StartClock can generate
Generated0 == GenerateRealisticFilename("setup.py", 0, StartClock)
Generated0v1 == NextCandidate(Generated0, 1)

\* working trees found before the run
InitialTrees ==
  {{},
   {"README.md"},
   {Generated0},
   {Generated0, Generated0v1}}

\* histories found before the run
InitialLogs ==
  {<<>>,
   [k \in 1..5 |-> [message |-> "feat: implement API routes\n", file |-> "api.py",
                    index |-> -1, author |-> <<>>]]}

\* an environment without GIT_AUTHORS in which no read fails
QuietEnv == [git_authors |-> "", faulty |-> FALSE]

\* an environment in which the reads of the inspection may fail
FaultyEnv == [git_authors |-> "", faulty |-> TRUE]

Ann == [name |-> "Ann", email |-> "ann@example.com"]
Bea == [name |-> "Bea", email |-> "bea@example.com"]

\* values of the authors key of the configuration file: absent, empty,
\* entries without email, well-formed entries
AuthorConfigs ==
  {None,
   Some(<<>>),
   Some(<<[name |-> "Bob"]>>),
   Some(<<Ann, Bea>>),
   Some(<<[name |-> "Bob"], Ann>>)}

\* values of GIT_AUTHORS
AuthorEnvs ==
  {"",
   "Cyd:cyd@example.com",
   " Cyd : cyd@example.com ,Dee:dee@example.com",
   "nocolon"}

\* trees of a flask project and of a node project
FrameworkTrees ==
  {{"flask_app.py"},
   {"index.js", "app.js", "package.json"}}

RunStartAt(tree, history, clock) ==
  /\ pc = "main"
  /\ final = NoFinal
  /\ i = 0
  /\ files = tree
  /\ log = history
  /\ cur = NoLocals
  /\ last = NoCommit
  /\ now = clock
  /\ err = "none"
  /\ pre = [files |-> tree, log |-> history]
  /\ fn = NoCall
  /\ cleaned = 0

RunStart(tree, history) == RunStartAt(tree, history, StartClock)

Request(commits, days_spread, dry_run, no_cleanup) ==
  /\ cli = [repo_path |-> Some(RepoPath), commits |-> Some(commits),
            days_spread |-> None, dry_run |-> dry_run, no_cleanup |-> no_cleanup]
  /\ cfg = [repo_path |-> None, commits |-> None, days_spread |-> Some(days_spread),
            authors |-> Some(<<Ann>>)]

\* longer runs on a tree where a generated name is taken, with every base
\* name; runs of one commit with a free random source: on every
\* initial tree and history, a dry run, an invalid request, on the trees of
\* framework projects, with reads of the inspection that may fail, and with
\* every author configuration
Init ==
  \/ /\ rng = "names"
     /\ env = QuietEnv
     /\ \E commits \in 1..MaxCommits :
          Request(commits, 1, FALSE, FALSE) /\ RunStart({Generated0}, <<>>)
  \/ /\ rng = "free"
     /\ env = QuietEnv
     /\ \/ \E tree \in InitialTrees, history \in InitialLogs, days_spread \in {0, 1},
              no_cleanup \in BOOLEAN :
             Request(1, days_spread, FALSE, no_cleanup) /\ RunStart(tree, history)
        \/ Request(1, 1, TRUE, FALSE) /\ RunStart({}, <<>>)
        \/ Request(-1, 1, FALSE, FALSE) /\ RunStart({}, <<>>)
        \/ \E tree \in FrameworkTrees, history \in InitialLogs :
             Request(1, 1, FALSE, FALSE) /\ RunStart(tree, history)
  \/ /\ rng = "free"
     /\ env = FaultyEnv
     /\ \E tree \in {{}, {"README.md"}}, history \in InitialLogs :
          Request(1, 1, FALSE, FALSE) /\ RunStart(tree, history)
  \/ /\ rng = "free"
     /\ \E authors \in AuthorConfigs, git_authors \in AuthorEnvs :
          /\ env = [git_authors |-> git_authors, faulty |-> FALSE]
          /\ cli = [repo_path |-> Some(RepoPath), commits |-> Some(1),
                    days_spread |-> Some(1), dry_run |-> FALSE, no_cleanup |-> FALSE]
          /\ cfg = [repo_path |-> None, commits |-> None, days_spread |-> None,
                    authors |-> authors]
          /\ RunStart({}, <<>>)

Next ==
  \/ Main
  \/ BeginCommit
  \/ NextName
  \/ FinishCommit
  \/ StageFails
  \/ CommitFails
  \/ Finally
  \/ Tick

Spec == Init /\ [][Next]_vars

\* runs with a pinned random source, over the requests main can receive
InitCli ==
  /\ rng = "pinned"
  /\ cli \in [repo_path : {None, Some(RepoPath)},
              commits : {None, Some(-1), Some(0), Some(1)},
              days_spread : {None, Some(-1), Some(0), Some(1)},
              dry_run : BOOLEAN,
              no_cleanup : {FALSE}]
  /\ cfg \in [repo_path : {None, Some(OtherRepoPath), Some(MissingPath)},
              commits : {None, Some(-1), Some(0), Some(2)},
              days_spread : {None, Some(-1), Some(0), Some(2)},
              authors : {None}]
  /\ env = QuietEnv
  /\ \E tree \in {{}, {Generated0}} : RunStart(tree, <<>>)

SpecCli == InitCli /\ [][Next]_vars

PhaseCommits == 5    \* total_commits < 5

\* trees of a user: files whose names hold an index or a version
UserTrees ==
  {{"README.md", "report_v2.md", "data_1_raw.csv"}}

\* runs past the last index the cleanup patterns name, seeded, on an empty
\* tree, on a tree where a generated name is taken and on the tree of a
\* user; runs on an empty repository past the commit that ends the initial
\* phase: with any message, with the appended messages of a python project,
\* and with reads of the inspection that may fail
InitLong ==
  \/ /\ rng = "seeded"
     /\ env = QuietEnv
     /\ \E tree \in {{}, {Generated0}} \cup UserTrees, commits \in {1, MaxRun},
           no_cleanup \in BOOLEAN :
          Request(commits, 1, FALSE, no_cleanup) /\ RunStart(tree, <<>>)
  \/ /\ rng \in {"texts", "extras"}
     /\ env = QuietEnv
     /\ Request(PhaseCommits + 1, 1, FALSE, FALSE)
     /\ RunStartAt({}, <<>>, StartClock + MaxTicks)
  \/ /\ rng = "seeded"
     /\ env = FaultyEnv
     /\ Request(PhaseCommits + 1, 1, FALSE, FALSE)
     /\ RunStartAt({}, <<>>, StartClock + MaxTicks)

SpecLong == InitLong /\ [][Next]_vars

\* ------------------------------------- functions applied on their own
MaxListLen == 2      \* files in the added and in the modified list
MaxIndex == 16       \* largest commit index handed to the classifier
MaxLogLen == 21      \* commits in a history handed to the history analysis
MaxDiffLines == 2    \* lines of a diff handed to the change analysis
MaxRecent == 6       \* commits in a history handed to the focus analysis

\* the program at rest, on the tree and the history given
AtRest(tree, history) ==
  /\ cli = [repo_path |-> None, commits |-> None, days_spread |-> None,
            dry_run |-> FALSE, no_cleanup |-> FALSE]
  /\ cfg = [repo_path |-> None, commits |-> None, days_spread |-> None,
            authors |-> None]
  /\ env = QuietEnv
  /\ cleaned = 0
  /\ rng = "free"
  /\ pc = "off"
  /\ final = [repo_path |-> RepoPath, commits |-> 0, days_spread |-> 0]
  /\ i = 0
  /\ files = tree
  /\ log = history
  /\ cur = NoLocals
  /\ last = NoCommit
  /\ now = StartClock
  /\ err = "none"
  /\ pre = [files |-> tree, log |-> history]

Others == <<cli, cfg, rng, pc, final, i, files, log, cur, last, now, err, pre, env, cleaned>>

\* file paths of the change sets
ChangeFiles ==
  {"app.py", "README.md", "guide.rst", "settings.json", "pyproject.toml", "logo.png"}

\* the lists of at most n paths
RECURSIVE Lists(_)
Lists(n) ==
  IF n = 0 THEN {<<>>}
  ELSE Lists(n - 1) \cup
       {Append(l, f) : l \in {m \in Lists(n - 1) : Len(m) = n - 1},
                       f \in ChangeFiles}

ChangeSets ==
  [added : Lists(MaxListLen), modified : Lists(MaxListLen), deleted : Lists(1),
   renamed : {<<>>, <<<<"old.py", "new.py">>>>}]

\* --- _generate_commit_type
InitCommitType ==
  /\ AtRest({}, <<>>)
  /\ \E changes \in ChangeSets :
       fn = [op |-> "commit_type", changes |-> changes, result |-> None]

InferCommitType ==
  /\ fn.op = "commit_type"
  /\ fn.result = None
  /\ fn' = [fn EXCEPT !.result = Some(GenerateCommitType(fn.changes))]
  /\ UNCHANGED Others

SpecCommitType == InitCommitType /\ [][InferCommitType]_vars

\* --- the category selection
Phases ==
  {"initial", "feature_development", "bug_fixing", "documentation", "testing",
   "optimization", "maintenance"}

Focuses == {"setup", "api", "testing", "documentation", "bug_fixes", "performance"}

Areas == {"api", "authentication", "database", "frontend", "testing", "documentation"}

InitClassify ==
  /\ AtRest({}, <<>>)
  /\ \E development_phase \in Phases, recent_focus \in Focuses,
        feature_areas \in SUBSET Areas, commit_index \in 0..MaxIndex :
       fn = [op |-> "classify", development_phase |-> development_phase,
             recent_focus |-> recent_focus, feature_areas |-> feature_areas,
             commit_index |-> commit_index, result |-> None]

Classify ==
  /\ fn.op = "classify"
  /\ fn.result = None
  /\ \E category \in Choice(CategoryChoices(fn.development_phase, fn.recent_focus,
                                             fn.feature_areas, fn.commit_index)) :
       fn' = [fn EXCEPT !.result = Some(category)]
  /\ UNCHANGED Others

SpecClassify == InitClassify /\ [][Classify]_vars

\* --- _analyze_commit_history
Kinds == <<"feat", "fix", "docs", "test", "perf", "refactor", "other">>

\* the stored message standing for a commit of each kind
KindMessage ==
  [feat |-> "feat: implement API routes\n",
   fix |-> "fix: resolve database connection issue\n",
   docs |-> "docs: create user guide\n",
   test |-> "test: add unit tests\n",
   perf |-> "perf: reduce memory usage\n",
   refactor |-> "refactor: simplify complex logic\n",
   other |-> "Feat: Initial import\n"]

\* n commits of one kind
Block(kind, n) ==
  [k \in 1..n |-> [message |-> KindMessage[kind], file |-> "", index |-> -1,
                   author |-> <<>>]]

\* the history holding count[kind] commits of every kind, the kinds in the
\* order given (most recent first)
RECURSIVE Blocks(_, _)
Blocks(count, order) ==
  IF order = <<>> THEN <<>>
  ELSE Block(Head(order), count[Head(order)]) \o Blocks(count, Tail(order))

Reverse(seq) == [k \in 1..Len(seq) |-> seq[Len(seq) + 1 - k]]

InitHistory ==
  \E feat \in 0..MaxLogLen :
  \E fix \in 0..(MaxLogLen - feat) :
  \E docs \in 0..(MaxLogLen - feat - fix) :
  \E test \in 0..(MaxLogLen - feat - fix - docs) :
  \E perf \in 0..Min(1, MaxLogLen - feat - fix - docs - test) :
  \E refactor \in 0..Min(1, MaxLogLen - feat - fix - docs - test - perf) :
  \E other \in 0..(MaxLogLen - feat - fix - docs - test - perf - refactor) :
  \E order \in {Kinds, Reverse(Kinds)} :
    LET count == [feat |-> feat, fix |-> fix, docs |-> docs, test |-> test,
                  perf |-> perf, refactor |-> refactor, other |-> other]
        total == feat + fix + docs + test + perf + refactor + other
    IN /\ total <= MaxCount => order = Kinds
       /\ AtRest({}, Blocks(count, order))
       /\ fn = [op |-> "history", result |-> None]

AnalyzeHistory ==
  /\ fn.op = "history"
  /\ fn.result = None
  /\ fn' = [fn EXCEPT !.result = Some(AnalyzeCommitHistory(log).development_phase)]
  /\ UNCHANGED Others

SpecHistory == InitHistory /\ [][AnalyzeHistory]_vars

\* --- _analyze_changes
\* lines of `git diff --name-status`: the statuses A, M, D, a rename with
\* its similarity score, a type change, a copy, R without a score with one
\* and with two paths, a line without a tab, a blank line
DiffLines ==
  {"A\tsrc/main.py", "M\tREADME.md", "D\told.py", "R100\told.py\tnew.py",
   "T\tlink", "C75\ta.py\tb.py", "R\told.py\tnew.py", "R\tonly.py", "garbage", " "}

\* the outputs of at most n lines
RECURSIVE Diffs(_)
Diffs(n) ==
  IF n = 0 THEN {""}
  ELSE Diffs(n - 1) \cup DiffLines \cup
       {d \o "\n" \o l : d \in Diffs(n - 1) \ {""}, l \in DiffLines}

InitChanges ==
  /\ AtRest({}, <<>>)
  /\ \E staged \in Diffs(MaxDiffLines), unstaged \in {"", "M\tREADME.md", "T\tlink"},
        raises \in BOOLEAN :
       /\ raises => (staged = "" /\ unstaged = "")
       /\ fn = [op |-> "changes", staged |-> staged, unstaged |-> unstaged,
                raises |-> raises, result |-> None]

\* GitStrategy._analyze_changes on the outputs of the two diff commands;
\* when the command raises, or both outputs are blank, the dummy change set
AnalyzeChanges ==
  /\ fn.op = "changes"
  /\ fn.result = None
  /\ \E diff \in {DiffChosen(fn.staged, fn.unstaged)} :
       IF fn.raises \/ Strip(diff) = ""
       THEN \E dummy \in Choice(DummyFiles) :
              fn' = [fn EXCEPT !.result = Some([NoChanges EXCEPT !.added = <<dummy>>])]
       ELSE fn' = [fn EXCEPT !.result =
                     Some(ParseLines(NoChanges, Split(Strip(diff), "\n")))]
  /\ UNCHANGED Others

SpecChanges == InitChanges /\ [][AnalyzeChanges]_vars

\* --- recent_focus of _analyze_commit_history
\* stored messages holding one of the words api, test, doc, fix, perf, or none
FocusSamples ==
  {"feat: implement API routes\n",
   "test: add unit tests\n",
   "docs: create user guide\n",
   "fix: resolve database connection issue\n",
   "perf: reduce memory usage\n",
   "chore: bump version\n"}

InitFocus ==
  \E n \in 0..MaxRecent :
  \E picks \in [1..n -> FocusSamples] :
    /\ AtRest({}, [k \in 1..n |-> [message |-> picks[k], file |-> "", index |-> -1,
                                   author |-> <<>>]])
    /\ fn = [op |-> "focus", result |-> None]

AnalyzeFocus ==
  /\ fn.op = "focus"
  /\ fn.result = None
  /\ fn' = [fn EXCEPT !.result = Some(AnalyzeCommitHistory(log).recent_focus)]
  /\ UNCHANGED Others

SpecFocus == InitFocus /\ [][AnalyzeFocus]_vars

\* --- _analyze_repository_structure
\* files of a working tree: at the top, in .git, in directories whose name
\* holds '.git', in other directories
TreeFiles ==
  {"app.py", "README.md", ".gitignore", ".git/config", ".git/hooks/check.py",
   ".github/workflows/ci.yml", ".github/requirements.txt", "tests/test_app.py"}

InitInspect ==
  \E tree \in SUBSET TreeFiles, history \in InitialLogs, fault \in InspectionFaults :
    /\ AtRest(tree, history)
    /\ fn = [op |-> "inspect", fault |-> fault, result |-> None]

InspectRepository ==
  /\ fn.op = "inspect"
  /\ fn.result = None
  /\ fn' = [fn EXCEPT !.result =
              Some(AnalyzeRepositoryStructure(files, log, WorkingDir(final.repo_path),
                                              fn.fault))]
  /\ UNCHANGED Others

SpecInspect == InitInspect /\ [][InspectRepository]_vars

\* --- _create_realistic_file_content
ContentStems ==
  {"app", "test_app", "models", "test_models", "README", "readme_model",
   "package", "notes"}

ContentExtensions ==
  {".py", ".js", ".ts", ".md", ".json", ".yaml", ".yml", ".txt", ".rst", ".toml", ""}

InitContent ==
  /\ AtRest({}, <<>>)
  /\ \E stem \in ContentStems, ext \in ContentExtensions :
       fn = [op |-> "content", file_path |-> stem \o ext, result |-> None]

CreateContent ==
  /\ fn.op = "content"
  /\ fn.result = None
  /\ fn' = [fn EXCEPT !.result = Some(CreateRealisticFileContent(fn.file_path))]
  /\ UNCHANGED Others

SpecContent == InitContent /\ [][CreateContent]_vars

\* --- message synthesis, both paths
\* lists of added files in which one category has the most files
MixedLists ==
  {<<"README.md", "guide.rst", "app.py">>,
   <<"app.py", "README.md", "guide.rst">>,
   <<"app.py", "app.py", "README.md">>,
   <<"settings.json", "pyproject.toml", "README.md">>,
   <<"README.md", "guide.rst", "settings.json">>}

ProjectTrees ==
  {{},
   {"README.md"},
   {"app.py", "requirements.txt"},
   {"app.py", "flask_views.py"},
   {"index.js", "package.json"},
   {"index.js", "react_app.js"}}

PhaseLogs ==
  {<<>>,
   Block("feat", 5),
   Block("fix", 5),
   Block("docs", 5),
   Block("test", 5),
   Block("other", 3) \o Block("perf", 2),
   Block("other", 5)}

InitMessage ==
  \E tree \in ProjectTrees, history \in PhaseLogs :
    /\ AtRest(tree, history)
    /\ \/ \E commit_index \in 0..MaxIndex :
            fn = [op |-> "realistic", changes |-> <<>>,
                  commit_index |-> commit_index, result |-> None]
       \/ /\ history = <<>>
          /\ \E changes \in ChangeSets :
               /\ Len(changes.modified) <= 1
               /\ fn = [op |-> "contextual", changes |-> changes,
                        commit_index |-> 0, result |-> None]
       \/ /\ history = <<>>
          /\ \E added \in MixedLists :
               fn = [op |-> "contextual",
                     changes |-> [NoChanges EXCEPT !.added = added],
                     commit_index |-> 0, result |-> None]

SynthesizeRealistic ==
  /\ fn.op = "realistic"
  /\ fn.result = None
  /\ \E message \in RealisticCommitMessages(fn.commit_index, files, log,
                                             WorkingDir(final.repo_path)) :
       fn' = [fn EXCEPT !.result = Some(message)]
  /\ UNCHANGED Others

SynthesizeContextual ==
  /\ fn.op = "contextual"
  /\ fn.result = None
  /\ fn' = [fn EXCEPT !.result =
             Some(GenerateContextualCommitMessage(fn.changes,
                    GenerateCommitType(fn.changes), files,
                    WorkingDir(final.repo_path)))]
  /\ UNCHANGED Others

NextMessage == SynthesizeRealistic \/ SynthesizeContextual

SpecMessage == InitMessage /\ [][NextMessage]_vars

\* ------------------------------------------------------------ properties
\* the commits recorded by the run so far, oldest first
RunCommits == [k \in 1..(Len(log) - Len(pre.log)) |-> log[Len(log) - Len(pre.log) + 1 - k]]

\* C1: a run in which no staging or commit step fails appends exactly
\* `commits` commits to the history that was there, one per loop index
\* 0..commits-1 in that order, each adding one file that the run created
RunAppendsOneCommitPerIndex ==
  /\ Len(RunCommits) = i
  /\ SubSeq(log, i + 1, Len(log)) = pre.log
  /\ \A k \in 1..i :
       /\ RunCommits[k].index = k - 1
       /\ RunCommits[k].file \notin pre.files
       /\ \A j \in 1..(k - 1) : RunCommits[j].file # RunCommits[k].file
  /\ pc = "done" => i = final.commits
  /\ (pc = "aborted" /\ err = "config") => i = 0

RunOfSeveralCommitsDone ==
  pc = "done" /\ final.commits >= 2 /\ Len(RunCommits) = final.commits

\* C2: the file name used by a commit differs from every file that was in
\* the working tree before the run and from the name used by every other
\* commit of the run, and the loop that avoids collisions makes at most one
\* pass per file in the working tree
FilenamesUniqueAndLoopBounded ==
  /\ \A k \in 1..Len(RunCommits) :
       /\ RunCommits[k].file \notin pre.files
       /\ \A j \in 1..Len(RunCommits) :
            j # k => RunCommits[j].file # RunCommits[k].file
  /\ pc = "exists" =>
       /\ cur.counter - 1 <= Cardinality(files)
       /\ cur.file_name \notin {c.file : c \in Range(RunCommits)}
       /\ ~PathTaken(cur.file_name, files) => cur.file_name \notin pre.files

CollisionResolved ==
  /\ last.index >= 0
  /\ GenerateRealisticFilename(last.base, last.index, StartClock) \in pre.files
  /\ last.file \notin pre.files
  /\ Len(RunCommits) >= 1

\* C3: the first commit of a run on a repository without files and without
\* commits has category initial_setup, a base name among the five setup
\* names and one of the five initial_setup messages
FirstCommitOnEmptyRepository ==
  (last.index = 0 /\ pre.files = {} /\ pre.log = <<>>) =>
    /\ last.category = "initial_setup"
    /\ last.base \in {"setup.py", "requirements.txt", "README.md", "config.py",
                      "main.py"}
    /\ last.message \in {"feat: initialize project structure",
                         "feat: set up basic project configuration",
                         "feat: create initial project skeleton",
                         "feat: add project foundation",
                         "feat: bootstrap project setup"}

\* the value asked for: the flag when it is given, else the configuration
\* value, else the default
Requested(flag, configured, default) ==
  IF flag # None THEN flag[1] ELSE Get(configured, default)

\* C8: a request for a non-positive number of commits or a negative day
\* spread, by flag or by configuration, ends in a configuration error with
\* no file written and no commit made
InvalidRequestAborts ==
  (/\ pc # "main"
   /\ \/ Requested(cli.commits, cfg.commits, DefaultCommits) <= 0
      \/ Requested(cli.days_spread, cfg.days_spread, DefaultDaysSpread) < 0) =>
    /\ pc = "aborted"
    /\ err = "config"
    /\ files = pre.files
    /\ log = pre.log

\* C9: a flag that is given decides the value the run uses, whatever the
\* flag's value and whatever the configuration holds
FlagOverridesConfiguration ==
  pc # "main" =>
    /\ cli.repo_path # None => final.repo_path = cli.repo_path[1]
    /\ cli.commits # None => final.commits = cli.commits[1]
    /\ cli.days_spread # None => final.days_spread = cli.days_spread[1]

\* C10: the date given to a commit is at most days_spread days before the
\* wall-clock time at which the commit is created, and not after it
CommitDateWithinSpread ==
  last.index >= 0 =>
    /\ last.date <= last.created
    /\ last.created - last.date <= final.days_spread * SecondsPerDay

\* --- message synthesis
ClaimedPrefixes ==
  {"feat:", "fix:", "docs:", "test:", "config:", "security:", "refactor:", "perf:"}

HasPrefixIn(message, prefixes) == \E p \in prefixes : StartsWith(message, p)

Synthesized == fn.op \in {"realistic", "contextual"} /\ fn.result # None

\* C4 as stated: both message paths return a non-empty string that begins
\* with one of feat:, fix:, docs:, test:, config:, security:, refactor:, perf:
MessageHasClaimedPrefix ==
  Synthesized =>
    fn.result[1] # "" /\ HasPrefixIn(fn.result[1], ClaimedPrefixes)

\* C4 as amended: both message paths return a non-empty string that begins
\* with one of the eight prefixes or with chore:
MessageHasPrefix ==
  Synthesized =>
    /\ fn.result[1] # ""
    /\ HasPrefixIn(fn.result[1], ClaimedPrefixes \cup {"chore:"})
    /\ fn.op = "realistic" => HasPrefixIn(fn.result[1], ClaimedPrefixes)

ChoreMessageSynthesized ==
  /\ Synthesized
  /\ fn.op = "contextual"
  /\ fn.changes.added = <<>> /\ fn.changes.modified = <<>> /\ fn.changes.deleted = <<>>
  /\ fn.changes.renamed # <<>>
  /\ StartsWith(fn.result[1], "chore:")

\* --- commit-type inference
DocLike == {".md", ".txt", ".rst"}
ConfigLike == {".json", ".yaml", ".yml", ".toml", ".ini"}

SomeHas(file_list, exts) ==
  \E k \in 1..Len(file_list) : GetFileExtension(file_list[k]) \in exts

AllHave(file_list, exts) ==
  \A k \in 1..Len(file_list) : GetFileExtension(file_list[k]) \in exts

Inferred == fn.op = "commit_type" /\ fn.result # None

\* C5: docs or feat for added files; else refactor for deleted
\* files; else for modified files docs when any of them is doc-like, config
\* when any is config-like, fix otherwise; else chore
CommitTypeAsClaimed ==
  Inferred =>
    LET ch == fn.changes
    IN fn.result[1] =
         IF ch.added # <<>>
         THEN IF AllHave(ch.added, DocLike) THEN "docs" ELSE "feat"
         ELSE IF ch.deleted # <<>> THEN "refactor"
         ELSE IF ch.modified # <<>>
         THEN IF SomeHas(ch.modified, DocLike) THEN "docs"
              ELSE IF SomeHas(ch.modified, ConfigLike) THEN "config"
              ELSE "fix"
         ELSE "chore"

\* --- the category selection
Classified == fn.op = "classify" /\ fn.result # None

\* C6: the category follows the documented first-match order: initial phase
\* or index below 3 gives initial_setup; feature_development gives
\* api_development, database, frontend or core_features by its sub-order;
\* bug_fixing, documentation and testing give their category; optimization
\* gives performance or refactoring; any other phase goes by the index
CategoryAsDocumented ==
  Classified =>
    LET phase == fn.development_phase
        focus == fn.recent_focus
        areas == fn.feature_areas
        n == fn.commit_index
        category == fn.result[1]
    IN /\ (phase = "initial" \/ n < 3) => category = "initial_setup"
       /\ (phase # "initial" /\ n >= 3) =>
            /\ phase = "feature_development" =>
                 /\ ("api" \in areas /\ focus = "api") => category = "api_development"
                 /\ (~("api" \in areas /\ focus = "api") /\ "database" \in areas) =>
                      category = "database"
                 /\ (~("api" \in areas /\ focus = "api") /\ "database" \notin areas
                     /\ "frontend" \in areas) => category = "frontend"
                 /\ (~("api" \in areas /\ focus = "api") /\ "database" \notin areas
                     /\ "frontend" \notin areas) => category = "core_features"
            /\ phase = "bug_fixing" => category = "bug_fixes"
            /\ phase = "documentation" => category = "documentation"
            /\ phase = "testing" => category = "testing"
            /\ phase = "optimization" => category \in {"performance", "refactoring"}
            /\ phase \notin {"feature_development", "bug_fixing", "documentation",
                             "testing", "optimization"} =>
                 /\ n < 8 => category = "core_features"
                 /\ (n >= 8 /\ n < 12) =>
                      category \in {"api_development", "database", "frontend"}
                 /\ (n >= 12 /\ n < 15) =>
                      category \in {"testing", "documentation", "configuration"}
                 /\ n >= 15 =>
                      category \in {"bug_fixes", "performance", "refactoring", "security"}

FallbackByIndexTaken ==
  /\ Classified
  /\ fn.development_phase = "maintenance"
  /\ fn.commit_index = 12
  /\ fn.result[1] = "configuration"

\* --- the development phase
\* commits of a kind among the at most 20 most recent ones
Recent(kind) ==
  Cardinality({k \in 1..Len(log) : k <= 20 /\ log[k].message = KindMessage[kind]})

RecentTotal == IF Len(log) < 20 THEN Len(log) ELSE 20

PhaseComputed == fn.op = "history" /\ fn.result # None

\* C7: the development phase follows the rules on the prefixes of the at
\* most 20 most recent messages, in priority order; 7 feat: and 1 fix: among
\* 10 commits give feature_development
PhaseFollowsRules ==
  PhaseComputed =>
    LET phase == fn.result[1]
        few == RecentTotal < 5
        features == Recent("feat") > 2 * Recent("fix")
        fixes == Recent("fix") > Recent("feat")
        documents == 10 * Recent("docs") > 3 * RecentTotal
        tests == 5 * Recent("test") > RecentTotal
        tuning == Recent("perf") + Recent("refactor") > 0
    IN /\ few => phase = "initial"
       /\ (~few /\ features) => phase = "feature_development"
       /\ (~few /\ ~features /\ fixes) => phase = "bug_fixing"
       /\ (~few /\ ~features /\ ~fixes /\ documents) => phase = "documentation"
       /\ (~few /\ ~features /\ ~fixes /\ ~documents /\ tests) => phase = "testing"
       /\ (~few /\ ~features /\ ~fixes /\ ~documents /\ ~tests /\ tuning) =>
            phase = "optimization"
       /\ (~few /\ ~features /\ ~fixes /\ ~documents /\ ~tests /\ ~tuning) =>
            phase = "maintenance"
       /\ (Len(log) = 10 /\ Recent("feat") = 7 /\ Recent("fix") = 1) =>
            phase = "feature_development"

SevenFeaturesOfTen ==
  /\ PhaseComputed
  /\ Len(log) = 10 /\ Recent("feat") = 7 /\ Recent("fix") = 1
  /\ fn.result[1] = "feature_development"

\* --- the change analysis
Analyzed == fn.op = "changes" /\ fn.result # None

\* C11: every change set returned by _analyze_changes has at least one of
\* added, modified, deleted, renamed non-empty, whatever the diff output
ChangeSetNeverEmpty ==
  Analyzed =>
    LET ch == fn.result[1]
    IN ch.added # <<>> \/ ch.modified # <<>> \/ ch.deleted # <<>> \/ ch.renamed # <<>>

\* --- errors of the inspection
\* the last commit of the run was made after a failed read of the inspection
InspectionFailed == last.index >= 0 /\ last.fault # "none"

\* the commit of that iteration is in the history and no error is pending
CommitStillCreated ==
  /\ Len(log) > Len(pre.log)
  /\ \E k \in 1..Len(RunCommits) :
       RunCommits[k].index = last.index /\ RunCommits[k].file = last.file
  /\ err \in {"none", "stage", "commit"}

\* C12: after an error of the tree walk or of the history read the profile
\* has project_type unknown, development_phase initial, recent_focus setup,
\* the category is initial_setup, and the commit is still created
InspectionErrorGivesUnknownProfile ==
  InspectionFailed =>
    /\ last.project_type = "unknown"
    /\ last.development_phase = "initial"
    /\ last.recent_focus = "setup"
    /\ last.category = "initial_setup"
    /\ CommitStillCreated

\* C12, with the project type told apart by the read that failed: after an
\* error of the tree walk project_type is unknown; after an error of the
\* history read it is the type found in the tree; in both cases
\* development_phase is initial, recent_focus is setup, the category is
\* initial_setup, and the commit is still created
InspectionErrorGivesPartialProfile ==
  InspectionFailed =>
    /\ last.fault = "walk" => last.project_type = "unknown"
    /\ (last.fault = "history" /\ pc = "loop") =>
         last.project_type = ProjectType(AllFiles(files, WorkingDir(final.repo_path)))
    /\ last.development_phase = "initial"
    /\ last.recent_focus = "setup"
    /\ last.category = "initial_setup"
    /\ CommitStillCreated

HistoryReadFailedOnPythonTree ==
  /\ InspectionFailed
  /\ last.fault = "history"
  /\ last.project_type = "python_app"
  /\ Len(log) = Len(pre.log) + 1

\* --- failures of git add and git commit
\* C13: when staging or recording the commit of index k fails, run is left
\* with the error, no later index is attempted, the k commits made before
\* stay in the history, and the cleanup pass runs once if cleanup is enabled
\* and not at all otherwise
StepFailureEndsRun ==
  /\ err \in {"stage", "commit"} =>
       /\ pc \in {"raised", "aborted"}
       /\ cur = NoLocals
       /\ Len(RunCommits) = i
       /\ \A k \in 1..i : RunCommits[k].index = k - 1
       /\ cleaned = IF pc = "aborted" /\ ~cli.no_cleanup THEN 1 ELSE 0
  /\ pc = "done" => err = "none"

FailedAfterOneCommit ==
  /\ pc = "aborted"
  /\ err = "commit"
  /\ i = 1
  /\ Len(RunCommits) = 1
  /\ cleaned = 1

\* --- recent_focus
\* the words of the priority list held by each sample message, whatever the case
FocusWords ==
  [m \in FocusSamples |->
     {w \in {"api", "test", "doc", "fix", "perf"} : Contains(Lower(m), w)}]

FocusComputed == fn.op = "focus" /\ fn.result # None

\* C14: recent_focus is api if any of the 5 most recent messages holds
\* 'api', else testing for 'test', else documentation for 'doc', else
\* bug_fixes for 'fix', else performance for 'perf', else setup
RecentFocusByPriority ==
  FocusComputed =>
    LET recent == {log[k].message : k \in 1..Min(Len(log), 5)}
        has(w) == \E m \in recent : w \in FocusWords[m]
    IN /\ fn.result[1] =
            IF has("api") THEN "api"
            ELSE IF has("test") THEN "testing"
            ELSE IF has("doc") THEN "documentation"
            ELSE IF has("fix") THEN "bug_fixes"
            ELSE IF has("perf") THEN "performance"
            ELSE "setup"
       /\ fn.result[1] \in
            {"setup", "api", "testing", "documentation", "bug_fixes", "performance"}

OlderMessageIgnoredFixBeforePerf ==
  /\ FocusComputed
  /\ Len(log) = 6
  /\ log[1].message = "perf: reduce memory usage\n"
  /\ log[2].message = "fix: resolve database connection issue\n"
  /\ \A k \in 3..5 : log[k].message = "chore: bump version\n"
  /\ log[6].message = "feat: implement API routes\n"
  /\ fn.result[1] = "bug_fixes"

\* --- authors
\* the names given in the values of GIT_AUTHORS
EnvNames == {"Cyd", "Dee"}

\* C15: the author of every commit is in the resolved pool, and when the
\* configuration has an authors list, even an empty or malformed one, no
\* author comes from GIT_AUTHORS
EnvAuthorsOnlyWithoutConfigList ==
  \A k \in 1..Len(RunCommits) :
    /\ RunCommits[k].author \in Range(GetAuthors(cfg.authors, env.git_authors))
    /\ cfg.authors # None => RunCommits[k].author[1] \notin EnvNames

\* --- the file enumeration
InsideGitDirectory(f) == StartsWith(f, ".git/")

Inspected == fn.op = "inspect" /\ fn.result # None /\ fn.fault = "none"

\* C16: every file outside the .git directory is counted in file_types and
\* seen by has_config, files under .github included
EnumerationExcludesOnlyGit ==
  Inspected =>
    LET counted == {f \in files : ~InsideGitDirectory(f)}
        structure == fn.result[1]
    IN /\ \A f \in counted :
            GetFileExtension(f) # "" =>
              /\ GetFileExtension(f) \in DOMAIN structure.file_types
              /\ structure.file_types[GetFileExtension(f)] =
                   Cardinality({g \in counted : GetFileExtension(g) = GetFileExtension(f)})
       /\ structure.has_config =
            \E f \in counted :
              GetFileExtension(f) \in {".json", ".yaml", ".yml", ".toml", ".ini"}

\* --- the candidate pool
\* C17: the message of a commit is in the pool made of the 5 messages of the
\* category, plus 3 iff project_type is python_app, web_app or node_app,
\* plus 3 iff recent_focus is api, testing or documentation; the pool has
\* 5, 8 or 11 entries whatever was synthesized before
PoolAsDocumented ==
  last.index >= 0 =>
    LET by_project == last.project_type \in {"python_app", "web_app", "node_app"}
        by_focus == last.recent_focus \in {"api", "testing", "documentation"}
    IN /\ last.message \in Range(last.pool)
       /\ Len(last.pool) = 5 + (IF by_project THEN 3 ELSE 0) + (IF by_focus THEN 3 ELSE 0)
       /\ Cardinality(Range(last.pool)) = Len(last.pool)
       /\ SubSeq(last.pool, 1, 5) = CommitPatterns[last.category]
       /\ Range(last.pool) =
            Range(CommitPatterns[last.category])
            \cup Range(ProjectMessages(last.project_type))
            \cup Range(FocusMessages(last.recent_focus))

SecondCommitPoolOfEight ==
  /\ last.index = 1
  /\ last.project_type = "python_app"
  /\ last.recent_focus = "setup"
  /\ Len(last.pool) = 8

\* --- the name after a collision
\* C18: the name used is the generated name when it is free, else the
\* generated name with one suffix _v{n} before the extension, n the smallest
\* counter from 1 for which the name is free
SingleSuffixSmallestCounter ==
  (pc = "loop" /\ last.index >= 0 /\ last.index = i - 1) =>
    LET before == files \ {last.file}
    IN IF last.generated \notin before THEN last.file = last.generated
       ELSE \E n \in 1..(Cardinality(before) + 1) :
              /\ last.file = NextCandidate(last.generated, n)
              /\ \A m \in 1..(n - 1) : NextCandidate(last.generated, m) \in before

\* --- the object of a change-analysis message
ObjectWord ==
  [python |-> "Python", javascript |-> "JavaScript", docs |-> "documentation",
   config |-> "configuration"]

\* C19: in a repository of no recognised project type, when one of the
\* categories python, javascript, docs, config holds more of the added and
\* modified files than any other, the message names that category
DominantCategoryNamed ==
  (/\ fn.op = "contextual" /\ fn.result # None
   /\ files \in {{}, {"README.md"}}
   /\ fn.changes.deleted = <<>>
   /\ fn.changes.added \o fn.changes.modified # <<>>) =>
    LET categories == CategorizeFiles(fn.changes.added \o fn.changes.modified)
    IN \A c \in DOMAIN ObjectWord :
         (\A d \in DOMAIN categories \ {c} : Len(categories[d]) < Len(categories[c]))
           => Contains(fn.result[1], ObjectWord[c])

\* --- the content template
\* C20: .py, .js and .ts files get the unit-test stub when the name holds
\* 'test', else the class skeleton when it holds 'model', else the module
\* with a main entry point; .md files the README or the document template;
\* .json, .yaml and .yml files the manifest or the key=value template;
\* every other extension the fallback text
TemplateAsDocumented ==
  (fn.op = "content" /\ fn.result # None) =>
    LET ext == GetFileExtension(fn.file_path)
        low == Lower(fn.file_path)
        template == fn.result[1]
    IN IF ext \in {".py", ".js", ".ts"}
       THEN IF Contains(low, "test") THEN EndsWith(template, "unit_test")
            ELSE IF Contains(low, "model") THEN EndsWith(template, "model_class")
            ELSE EndsWith(template, "main_module")
       ELSE IF ext = ".md"
       THEN template \in {"markdown_readme", "markdown_document"}
       ELSE IF ext \in {".json", ".yaml", ".yml"}
       THEN template \in {"config_manifest", "config_key_value"}
       ELSE template = "fallback_text"

\* --- the cleanup pass
\* run has returned without an error
Returned == pc = "done"

\* C21: after run returns with cleanup enabled, no file created by the run
\* is left in the working tree, for every number of commits, and the commits
\* that added the files are in the history, on top of the earlier history
CleanupRemovesCreatedFiles ==
  (Returned /\ ~cli.no_cleanup) =>
    /\ \A k \in 1..Len(RunCommits) : RunCommits[k].file \notin files
    /\ Len(RunCommits) = final.commits
    /\ SubSeq(log, Len(RunCommits) + 1, Len(log)) = pre.log

\* C22: every file that was in the working tree before the run is in the
\* working tree after the run, whatever its path
CleanupKeepsEarlierFiles ==
  pc \in {"done", "aborted"} => pre.files \subseteq files

\* --- synthesized history and classification
\* a commit was made by a run that started on a repository without files
\* and without commits
CommittedFromEmpty == pre.files = {} /\ pre.log = <<>> /\ last.index >= 0

\* what holds of every commit of such a run: the message begins with feat:
\* and the category selection takes its first or its second branch
FeatOnlyFirstBranches ==
  /\ StartsWith(last.message, "feat:")
  /\ ClassifierBranch(last.development_phase, last.index) \in {1, 2}

\* C23: in a run started on a repository without files and commits, the
\* commits of index 0..4 are classified initial_setup and every commit of
\* index 5 and above core_features, with development_phase
\* feature_development, no feature area and recent_focus setup; every
\* message begins with feat: and branches 3 to 7 of the category selection
\* are never taken
FeedbackClosed ==
  CommittedFromEmpty =>
    /\ last.index < PhaseCommits => last.category = "initial_setup"
    /\ last.index >= PhaseCommits =>
         /\ last.category = "core_features"
         /\ last.development_phase = "feature_development"
         /\ last.feature_areas = {}
         /\ last.recent_focus = "setup"
    /\ FeatOnlyFirstBranches

\* C23, with the inspections that fail told apart: a commit of index 5 and
\* above is classified core_features (development_phase
\* feature_development, no feature area, recent_focus setup) when its
\* inspection meets no error, and initial_setup (development_phase initial)
\* when the tree walk or the history read of its inspection raises; the
\* commits of index 0..4 are classified initial_setup, every message begins
\* with feat: and branches 3 to 7 are never taken
FeedbackClosedWhenReadsSucceed ==
  CommittedFromEmpty =>
    /\ last.index < PhaseCommits => last.category = "initial_setup"
    /\ (last.index >= PhaseCommits /\ last.fault = "none") =>
         /\ last.category = "core_features"
         /\ last.development_phase = "feature_development"
    /\ (last.index >= PhaseCommits /\ last.fault # "none") =>
         /\ last.category = "initial_setup"
         /\ last.development_phase = "initial"
    /\ last.feature_areas = {}
    /\ last.recent_focus = "setup"
    /\ FeatOnlyFirstBranches

SixthCommitAfterPythonMessages ==
  /\ CommittedFromEmpty
  /\ last.index = PhaseCommits
  /\ last.fault = "none"
  /\ last.category = "core_features"
  /\ last.project_type = "python_app"
  /\ \E k \in 2..Len(log) : log[k].message = Stored("feat: add Python dependencies")

====
